---- MODULE Spec2Model ----
(***************************************************************************)
(* State-machine model of the connection core of ethereum-connectors:      *)
(*   WalletConnectionManager  (core/manager/wallet-connection-manager.ts)  *)
(*   NetworkManager           (core/manager/network-manager.ts)            *)
(*   IntegratedManager        (core/manager/integrated-manager.ts)         *)
(* Connectors are the environment: every awaited connector call settles    *)
(* (resolves or rejects) in a later step, and a registered connector may    *)
(* emit any of its four lifecycle events at any time.                       *)
(*                                                                          *)
(* JavaScript `undefined` is written NoConn / NoAddr / NoChain / NoErr for  *)
(* scalars and UndefAddrs / UndefChains for the two list fields; address    *)
(* and chain lists are modelled as sets (only membership is ever used).     *)
(***************************************************************************)
EXTENDS Integers, Sequences, FiniteSets, Bags, TLC

(* ------------------------------ bounds --------------------------------- *)
MaxInflight == 1         \* Coordinator calls that may be awaiting a connector
MaxWiring == 2           \* registerConnector() calls followed per connector

ConnectorIds == {"A", "B"}
Addresses == {"a1", "a2"}
Chains == {1, 10, 137}
NS == "demo"             \* the Integration Layer's namespace

\* Date.now(): a run is short against the 24 h threshold, so every reading
\* of the clock within it is the same; record ages come from the records
\* found in storage at start-up.
Hour == 60 * 60 * 1000
now == 25 * Hour
CONNECTION_TIMEOUT == 24 * 60 * 60 * 1000

NoConn == "none"
NoAddr == "none"
NoChain == 0
NoErr == "none"
UndefAddrs == {"undefined"}
UndefChains == {0}

VARIABLES
  state,        \* WalletConnectionManager.state (ConnectionState)
  storage,      \* localStorage['connection']: << >> or <<PersistedConnection>>
  connectors,   \* ids in WalletConnectionManager.connectors
  wired,        \* per connector id: how many times registerConnector() has
                \* attached the four event handlers to it
  inflight,     \* bag of Coordinator calls suspended at an await
  config,       \* NetworkManager.config (StoredNetworkConfig)
  adapterChains, \* per observed connector: its cached `chains` (set of ids)
  integrated,   \* TRUE iff an IntegratedManager wraps the two managers
  listeners,    \* WalletConnectionManager.listeners (the application's), in
                \* insertion order
  last          \* the step just taken: operation, arguments, outcome

vars == <<state, storage, connectors, wired, inflight, config, adapterChains,
         integrated, listeners, last>>

(* ------------------------- connector contract -------------------------- *)
\* Connector "A" keeps the BaseConnector defaults (every chain supported,
\* getSupportedChains() = null); connector "B" restricts itself to two chains.
NullChains == {-1}

GetSupportedChains(c) == IF c = "A" THEN NullChains ELSE {1, 10}

SupportsChain(c, chainId) == IF c = "A" THEN TRUE ELSE chainId \in {1, 10}

\* Of the connector classes, the injected ones keep every BaseConnector
\* default ("A"); the SDK-backed ones define updateChains() ("B").  No
\* class defines updateSupportedChains.
HasUpdateChains(c) == c = "B"

HasUpdateSupportedChains(c) == FALSE

\* the dApp chain list handed to the WalletConnectionManager constructor
DappChains == {1, 10}

\* the payload of `connected` / `permissionChanged` and the result of connect()
\* (the wallet exposes account "a1" alone, or both with "a2" selected)
ConnectionInfos(addrs, chs) ==
  { [address |-> a, addresses |-> IF a = "a1" THEN {"a1"} ELSE Addresses,
     chainId |-> c, chains |-> {c}] : a \in addrs, c \in chs }

NoInfo == [address |-> NoAddr, addresses |-> UndefAddrs, chainId |-> NoChain,
           chains |-> UndefChains]

(* ---------------------------- Coordinator ------------------------------ *)
InitialState ==
  [isConnected |-> FALSE, isConnecting |-> FALSE, address |-> NoAddr,
   addresses |-> UndefAddrs, chainId |-> NoChain, chains |-> UndefChains,
   connector |-> NoConn, error |-> NoErr]

NoCall ==
  [op |-> "none", pc |-> "none", conn |-> NoConn, chain |-> NoChain,
   addr |-> NoAddr, origin |-> "none", onReject |-> "none",
   displaced |-> NoConn, invoked |-> {}, start |-> "none", targets |-> {},
   listener |-> "none"]

Idle == [op |-> "none", res |-> "none", call |-> NoCall, info |-> NoInfo,
         issued |-> <<>>, published |-> FALSE, notified |-> <<>>]

\* variant: a record is stale from the threshold on
isExpired_AtThreshold(timestamp, timeout) == now - timestamp >= timeout

isExpired(timestamp, timeout) == now - timestamp > timeout

\* The mutable world a synchronous stretch of code works on.  `issued` lists
\* the Coordinator calls the Integration Layer made during the stretch.
World ==
  [state |-> state, storage |-> storage, inflight |-> inflight,
   config |-> config, adapterChains |-> adapterChains,
   listeners |-> listeners, issued |-> <<>>, published |-> FALSE,
   notified |-> <<>>]

Suspend(w, call) == [w EXCEPT !.inflight = @ (+) SetToBag({call})]

Resume(w, call) == [w EXCEPT !.inflight = @ (-) SetToBag({call})]

\* (here and in Emit and updateState the world handed in is bound to a
\* variable, so that it is worked out once however often the body reads it)
PersistConnection(world) ==
  CHOOSE persisted \in
    { IF ~w.state.isConnected \/ w.state.connector = NoConn \/ w.state.address = NoAddr
      THEN w
      ELSE [w EXCEPT !.storage =
              <<[connectorId |-> w.state.connector,
                 address |-> w.state.address,
                 chainId |-> IF w.state.chainId = NoChain THEN 1 ELSE w.state.chainId,
                 timestamp |-> now]>>] : w \in {world} } : TRUE

StorageClear(w) == [w EXCEPT !.storage = <<>>]

\* disconnect(): the synchronous part, up to `await connector.disconnect()`
DisconnectCall(w, origin) ==
  LET call == [NoCall EXCEPT !.op = "disconnect", !.pc = "awaitDisconnect",
                             !.conn = w.state.connector, !.origin = origin,
                             !.invoked = {"disconnect"}]
      w1 == [w EXCEPT !.issued = IF origin = "user" THEN @ ELSE Append(@, call)]
  IN IF w.state.connector # NoConn
     THEN Suspend(StorageClear(w1), call)
     ELSE w1

\* what the caller's .catch() does with a rejected switchChain
OnSwitchRejected(w, call) ==
  IF call.onReject = "disconnect"
  THEN DisconnectCall(w, call.origin \o ".catch")
  ELSE w

\* variant: the live call is made without asking supportsChain
SwitchChainCall_Unchecked(w, chainId, origin, onReject) ==
  LET call == [NoCall EXCEPT !.op = "switchChain", !.pc = "awaitSwitchChain",
                             !.conn = w.state.connector, !.chain = chainId,
                             !.origin = origin, !.onReject = onReject]
      w1 == [w EXCEPT !.issued = IF origin = "user" THEN @ ELSE Append(@, call)]
  IN IF w.state.connector = NoConn
     THEN OnSwitchRejected(w1, call)
     ELSE Suspend(w1, [call EXCEPT !.invoked = {"switchChain"}])

\* switchChain(): the synchronous part, up to `await connector.switchChain()`
SwitchChainCall(w, chainId, origin, onReject) ==
  LET call == [NoCall EXCEPT !.op = "switchChain", !.pc = "awaitSwitchChain",
                             !.conn = w.state.connector, !.chain = chainId,
                             !.origin = origin, !.onReject = onReject]
      w1 == [w EXCEPT !.issued = IF origin = "user" THEN @ ELSE Append(@, call)]
  IN IF w.state.connector = NoConn
     THEN OnSwitchRejected(w1, call)
     ELSE IF ~SupportsChain(w.state.connector, chainId)
     THEN OnSwitchRejected(w1, call)
     ELSE Suspend(w1, [call EXCEPT !.invoked = {"switchChain"}])

SwitchChainRejectsEarly(w, chainId) ==
  w.state.connector = NoConn \/ ~SupportsChain(w.state.connector, chainId)

(* -------------------------- Network Registry --------------------------- *)
HasNamespace(cfg, ns) == ns \in DOMAIN cfg.namespaces

IndexOf(seq, x) ==
  IF \E i \in 1..Len(seq) : seq[i] = x
  THEN CHOOSE i \in 1..Len(seq) : seq[i] = x /\ \A j \in 1..(i-1) : seq[j] # x
  ELSE 0

Splice(seq, idx) == SubSeq(seq, 1, idx - 1) \o SubSeq(seq, idx + 1, Len(seq))

Includes(seq, x) == \E i \in 1..Len(seq) : seq[i] = x

getCurrentChainId(cfg, ns) ==
  IF HasNamespace(cfg, ns) THEN cfg.namespaces[ns].currentChainId ELSE NoChain

isNetworkEnabled(cfg, ns, chainId) ==
  HasNamespace(cfg, ns) /\ Includes(cfg.namespaces[ns].enabledChainIds, chainId)

getEnabledNetworks(cfg, ns) ==
  IF HasNamespace(cfg, ns)
  THEN SelectSeq(cfg.namespaces[ns].enabledChainIds,
                 LAMBDA id : id \in DOMAIN cfg.networks)
  ELSE <<>>

SetNamespace(cfg, ns, rec) ==
  [cfg EXCEPT !.namespaces =
     [n \in DOMAIN cfg.namespaces \cup {ns} |->
        IF n = ns THEN rec ELSE cfg.namespaces[n]]]

\* variant: removal leaves every namespace's current chain as it was
removeCustomNetwork_KeepCurrent(cfg, chainId) ==
  IF ~(chainId \in DOMAIN cfg.networks /\ cfg.networks[chainId].isCustom)
  THEN [cfg |-> cfg, ret |-> "ignored", ev |-> <<>>]
  ELSE
    LET strip(rec) ==
          LET idx == IndexOf(rec.enabledChainIds, chainId)
          IN IF idx > 0
             THEN [rec EXCEPT !.enabledChainIds = Splice(@, idx)]
             ELSE rec
    IN [cfg |-> [networks |-> [c \in DOMAIN cfg.networks \ {chainId} |-> cfg.networks[c]],
                 namespaces |-> [n \in DOMAIN cfg.namespaces |-> strip(cfg.namespaces[n])]],
        ret |-> "removed",
        ev |-> <<[type |-> "networkRemoved", ns |-> "", chainId |-> chainId, enabled |-> FALSE]>>]

\* Registry operations return the new config, the value returned to the
\* caller and the events emitted (in order).
removeCustomNetwork(cfg, chainId) ==
  IF ~(chainId \in DOMAIN cfg.networks /\ cfg.networks[chainId].isCustom)
  THEN [cfg |-> cfg, ret |-> "ignored", ev |-> <<>>]
  ELSE
    LET strip(rec) ==
          LET idx == IndexOf(rec.enabledChainIds, chainId)
              rest == Splice(rec.enabledChainIds, idx)
          IN IF idx > 0
             THEN [enabledChainIds |-> rest,
                   currentChainId |->
                     IF rec.currentChainId = chainId
                     THEN (IF Len(rest) > 0 THEN rest[1] ELSE NoChain)
                     ELSE rec.currentChainId]
             ELSE rec
    IN [cfg |-> [networks |-> [c \in DOMAIN cfg.networks \ {chainId} |-> cfg.networks[c]],
                 namespaces |-> [n \in DOMAIN cfg.namespaces |-> strip(cfg.namespaces[n])]],
        ret |-> "removed",
        ev |-> <<[type |-> "networkRemoved", ns |-> "", chainId |-> chainId, enabled |-> FALSE]>>]

\* variant: disabling the current chain leaves it current
toggleNetwork_KeepCurrent(cfg, ns, chainId, enabled) ==
  LET rec == IF HasNamespace(cfg, ns) THEN cfg.namespaces[ns]
             ELSE [enabledChainIds |-> <<>>, currentChainId |-> NoChain]
      cfg0 == SetNamespace(cfg, ns, rec)
      idx == IndexOf(rec.enabledChainIds, chainId)
      toggled == <<[type |-> "networkToggled", ns |-> ns, chainId |-> chainId,
                    enabled |-> enabled]>>
  IN IF enabled /\ idx = 0
     THEN LET pushed == Append(rec.enabledChainIds, chainId)
          IN [cfg |-> SetNamespace(cfg, ns,
                        [enabledChainIds |-> pushed,
                         currentChainId |-> IF Len(pushed) = 1 THEN chainId
                                            ELSE rec.currentChainId]),
              ret |-> "true", ev |-> toggled]
     ELSE IF ~enabled /\ idx > 0
     THEN IF Len(rec.enabledChainIds) = 1
          THEN [cfg |-> cfg0, ret |-> "false", ev |-> <<>>]
          ELSE [cfg |-> SetNamespace(cfg, ns,
                          [rec EXCEPT !.enabledChainIds = Splice(@, idx)]),
                ret |-> "true", ev |-> toggled]
     ELSE [cfg |-> cfg0, ret |-> "true", ev |-> toggled]

\* variant: enabling pushes the chain even when it is already enabled
toggleNetwork_Duplicating(cfg, ns, chainId, enabled) ==
  LET rec == IF HasNamespace(cfg, ns) THEN cfg.namespaces[ns]
             ELSE [enabledChainIds |-> <<>>, currentChainId |-> NoChain]
      cfg0 == SetNamespace(cfg, ns, rec)
      idx == IndexOf(rec.enabledChainIds, chainId)
      toggled == <<[type |-> "networkToggled", ns |-> ns, chainId |-> chainId,
                    enabled |-> enabled]>>
  IN IF enabled
     THEN LET pushed == Append(rec.enabledChainIds, chainId)
          IN [cfg |-> SetNamespace(cfg, ns,
                        [enabledChainIds |-> pushed,
                         currentChainId |-> IF Len(pushed) = 1 THEN chainId
                                            ELSE rec.currentChainId]),
              ret |-> "true", ev |-> toggled]
     ELSE IF idx > 0
     THEN IF Len(rec.enabledChainIds) = 1
          THEN [cfg |-> cfg0, ret |-> "false", ev |-> <<>>]
          ELSE LET rest == Splice(rec.enabledChainIds, idx)
               IN [cfg |-> SetNamespace(cfg, ns,
                             [enabledChainIds |-> rest,
                              currentChainId |->
                                IF rec.currentChainId = chainId
                                THEN (IF Len(rest) > 0 THEN rest[1] ELSE NoChain)
                                ELSE rec.currentChainId]),
                   ret |-> "true", ev |-> toggled]
     ELSE [cfg |-> cfg0, ret |-> "true", ev |-> toggled]

\* variant: the only enabled chain may be disabled
toggleNetwork_Unprotected(cfg, ns, chainId, enabled) ==
  LET rec == IF HasNamespace(cfg, ns) THEN cfg.namespaces[ns]
             ELSE [enabledChainIds |-> <<>>, currentChainId |-> NoChain]
      idx == IndexOf(rec.enabledChainIds, chainId)
      toggled == <<[type |-> "networkToggled", ns |-> ns, chainId |-> chainId,
                    enabled |-> enabled]>>
  IN IF enabled /\ idx = 0
     THEN LET pushed == Append(rec.enabledChainIds, chainId)
          IN [cfg |-> SetNamespace(cfg, ns,
                        [enabledChainIds |-> pushed,
                         currentChainId |-> IF Len(pushed) = 1 THEN chainId
                                            ELSE rec.currentChainId]),
              ret |-> "true", ev |-> toggled]
     ELSE IF ~enabled /\ idx > 0
     THEN LET rest == Splice(rec.enabledChainIds, idx)
          IN [cfg |-> SetNamespace(cfg, ns,
                        [enabledChainIds |-> rest,
                         currentChainId |->
                           IF rec.currentChainId = chainId
                           THEN (IF Len(rest) > 0 THEN rest[1] ELSE NoChain)
                           ELSE rec.currentChainId]),
              ret |-> "true", ev |-> toggled]
     ELSE [cfg |-> SetNamespace(cfg, ns, rec), ret |-> "true", ev |-> toggled]

toggleNetwork(cfg, ns, chainId, enabled) ==
  LET rec == IF HasNamespace(cfg, ns) THEN cfg.namespaces[ns]
             ELSE [enabledChainIds |-> <<>>, currentChainId |-> NoChain]
      cfg0 == SetNamespace(cfg, ns, rec)
      idx == IndexOf(rec.enabledChainIds, chainId)
      toggled == <<[type |-> "networkToggled", ns |-> ns, chainId |-> chainId,
                    enabled |-> enabled]>>
  IN IF enabled /\ idx = 0
     THEN LET pushed == Append(rec.enabledChainIds, chainId)
          IN [cfg |-> SetNamespace(cfg, ns,
                        [enabledChainIds |-> pushed,
                         currentChainId |-> IF Len(pushed) = 1 THEN chainId
                                            ELSE rec.currentChainId]),
              ret |-> "true", ev |-> toggled]
     ELSE IF ~enabled /\ idx > 0
     THEN IF Len(rec.enabledChainIds) = 1
          THEN [cfg |-> cfg0, ret |-> "false", ev |-> <<>>]
          ELSE LET rest == Splice(rec.enabledChainIds, idx)
               IN [cfg |-> SetNamespace(cfg, ns,
                             [enabledChainIds |-> rest,
                              currentChainId |->
                                IF rec.currentChainId = chainId
                                THEN (IF Len(rest) > 0 THEN rest[1] ELSE NoChain)
                                ELSE rec.currentChainId]),
                   ret |-> "true", ev |-> toggled]
     ELSE [cfg |-> cfg0, ret |-> "true", ev |-> toggled]

setCurrentNetwork(cfg, ns, chainId) ==
  LET changed == <<[type |-> "currentNetworkChanged", ns |-> ns,
                    chainId |-> chainId, enabled |-> FALSE]>>
  IN IF ~HasNamespace(cfg, ns)
     THEN [cfg |-> SetNamespace(cfg, ns, [enabledChainIds |-> <<>>,
                                          currentChainId |-> chainId]),
           ret |-> "set", ev |-> changed]
     ELSE IF Includes(cfg.namespaces[ns].enabledChainIds, chainId)
     THEN [cfg |-> SetNamespace(cfg, ns, [cfg.namespaces[ns] EXCEPT
                                            !.currentChainId = chainId]),
           ret |-> "set", ev |-> changed]
     ELSE [cfg |-> cfg, ret |-> "refused", ev |-> <<>>]

\* Object.keys(networks).map(parseInt): integer keys come in ascending order
RECURSIVE Ascending(_)
Ascending(S) ==
  IF S = {} THEN <<>>
  ELSE LET lo == CHOOSE x \in S : \A y \in S : x <= y
       IN <<lo>> \o Ascending(S \ {lo})

\* defaultChainIds = <<NoChain>> stands for an omitted argument
initializeNamespace(cfg, ns, defaultChainIds) ==
  IF HasNamespace(cfg, ns)
  THEN [cfg |-> cfg, ret |-> "kept", ev |-> <<>>]
  ELSE LET enabledIds == IF defaultChainIds = <<NoChain>>
                         THEN Ascending(DOMAIN cfg.networks)
                         ELSE defaultChainIds
       IN [cfg |-> SetNamespace(cfg, ns,
                     [enabledChainIds |->
                        SelectSeq(enabledIds, LAMBDA id : id \in DOMAIN cfg.networks),
                      currentChainId |-> IF Len(enabledIds) > 0 THEN enabledIds[1]
                                         ELSE NoChain]),
           ret |-> "created", ev |-> <<>>]

\* only the catalog entry's origin flag is modelled
addOrUpdateCustomNetwork(cfg, chainId) ==
  LET isNew == chainId \notin DOMAIN cfg.networks
  IN [cfg |-> [cfg EXCEPT !.networks =
                 [c \in DOMAIN cfg.networks \cup {chainId} |->
                    IF c = chainId THEN [isCustom |-> TRUE] ELSE cfg.networks[c]]],
      ret |-> IF isNew THEN "added" ELSE "updated",
      ev |-> <<[type |-> IF isNew THEN "networkAdded" ELSE "networkUpdated",
                ns |-> "", chainId |-> chainId, enabled |-> FALSE]>>]

\* the endpoints themselves are not modelled, only the event
updateNetworkRpc(cfg, chainId) ==
  IF chainId \notin DOMAIN cfg.networks
  THEN [cfg |-> cfg, ret |-> "ignored", ev |-> <<>>]
  ELSE [cfg |-> cfg, ret |-> "updated",
        ev |-> <<[type |-> "networkUpdated", ns |-> "", chainId |-> chainId,
                  enabled |-> FALSE]>>]

\* a built-in definition as the application supplies it
BuiltIn(chainId) == [isCustom |-> FALSE]

\* variant: a supplied built-in definition replaces the stored entry
mergeBuiltInNetworks_Overwrite(cfg, builtInNetworks) ==
  [cfg EXCEPT !.networks =
     [c \in DOMAIN cfg.networks \cup builtInNetworks |->
        IF c \in builtInNetworks THEN BuiltIn(c) ELSE cfg.networks[c]]]

\* new NetworkManager(builtInNetworks) over a stored configuration
mergeBuiltInNetworks(cfg, builtInNetworks) ==
  [cfg EXCEPT !.networks =
     [c \in DOMAIN cfg.networks \cup builtInNetworks |->
        IF c \in DOMAIN cfg.networks THEN cfg.networks[c] ELSE BuiltIn(c)]]

(* -------------------------- Integration Layer -------------------------- *)
\* Chain-list propagation.  No connector class of the repository defines
\* updateSupportedChains, so the forEach over the registered connectors
\* reaches none of them; updateChains() is called on the active connector
\* when it defines the method, and the connector then stores the list (the
\* reinitialisation that follows is the connector's own business).  The
\* step is noted in `issued` with the connectors whose updateChains() ran.
\* variant: every registered connector that defines updateChains() gets it
UpdateChainsTargets_All(w) == {c \in connectors : HasUpdateChains(c)}

UpdateChainsTargets(w) ==
  {c \in connectors : c = w.state.connector /\ HasUpdateChains(c)}

updateWalletManagerChains(w) ==
  LET enabledNetworks == getEnabledNetworks(w.config, NS)
      chains == {enabledNetworks[i] : i \in 1..Len(enabledNetworks)}
      cached == {c \in connectors : HasUpdateSupportedChains(c)}
      targets == UpdateChainsTargets(w)
  IN [w EXCEPT !.adapterChains =
                  [c \in DOMAIN @ |-> IF c \in cached \cup targets THEN chains
                                      ELSE @[c]],
               !.issued = Append(@, [NoCall EXCEPT !.op = "updateChains",
                                                   !.conn = w.state.connector,
                                                   !.origin = "updateWalletManagerChains",
                                                   !.targets = targets])]

OnNetworkUpdated(w, chainId) ==
  IF ~isNetworkEnabled(w.config, NS, chainId) THEN w
  ELSE updateWalletManagerChains(w)

\* variant: any connected session is moved, whatever chain it is on
OnNetworkRemoved_AnyChain(w, chainId) ==
  LET st == w.state
      newCurrentChainId == getCurrentChainId(w.config, NS)
      w1 == IF st.isConnected
            THEN IF newCurrentChainId # NoChain
                 THEN SwitchChainCall(w, newCurrentChainId, "networkRemoved", "disconnect")
                 ELSE DisconnectCall(w, "networkRemoved")
            ELSE w
  IN updateWalletManagerChains(w1)

OnNetworkRemoved(w, chainId) ==
  LET st == w.state
      newCurrentChainId == getCurrentChainId(w.config, NS)
      w1 == IF st.isConnected /\ st.chainId = chainId
            THEN IF newCurrentChainId # NoChain
                 THEN SwitchChainCall(w, newCurrentChainId, "networkRemoved", "disconnect")
                 ELSE DisconnectCall(w, "networkRemoved")
            ELSE w
  IN updateWalletManagerChains(w1)

\* variant: the session is moved to the namespace's current chain
OnNetworkToggled_ToCurrent(w, ns, chainId, enabled) ==
  IF ns # NS THEN w
  ELSE
    LET st == w.state
        current == getCurrentChainId(w.config, NS)
        w1 == IF ~enabled /\ st.isConnected /\ st.chainId = chainId
              THEN IF current # NoChain
                   THEN SwitchChainCall(w, current, "networkToggled", "disconnect")
                   ELSE DisconnectCall(w, "networkToggled")
              ELSE w
    IN updateWalletManagerChains(w1)

OnNetworkToggled(w, ns, chainId, enabled) ==
  IF ns # NS THEN w
  ELSE
    LET st == w.state
        enabledNetworks == getEnabledNetworks(w.config, NS)
        w1 == IF ~enabled /\ st.isConnected /\ st.chainId = chainId
              THEN IF Len(enabledNetworks) > 0
                   THEN SwitchChainCall(w, enabledNetworks[1], "networkToggled", "disconnect")
                   ELSE DisconnectCall(w, "networkToggled")
              ELSE w
    IN updateWalletManagerChains(w1)

\* variant: every connected session is switched
OnCurrentNetworkChanged_Always(w, ns, chainId) ==
  IF ns # NS THEN w
  ELSE IF w.state.isConnected
       THEN SwitchChainCall(w, chainId, "currentNetworkChanged", "log")
       ELSE w

OnCurrentNetworkChanged(w, ns, chainId) ==
  IF ns # NS THEN w
  ELSE IF w.state.isConnected /\ w.state.chainId # chainId
       THEN SwitchChainCall(w, chainId, "currentNetworkChanged", "log")
       ELSE w

Handle(w, e) ==
  IF e.type = "networkRemoved" THEN OnNetworkRemoved(w, e.chainId)
  ELSE IF e.type = "networkToggled" THEN OnNetworkToggled(w, e.ns, e.chainId, e.enabled)
  ELSE IF e.type = "currentNetworkChanged" THEN OnCurrentNetworkChanged(w, e.ns, e.chainId)
  ELSE IF e.type = "networkUpdated" THEN OnNetworkUpdated(w, e.chainId)
  ELSE w

\* a Registry operation followed by the synchronous dispatch of its events
\* (every operation here emits at most one event)
Emit(world, result) ==
  CHOOSE dispatched \in
    { LET w1 == [w EXCEPT !.config = r.cfg]
      IN IF integrated /\ Len(r.ev) > 0 THEN Handle(w1, r.ev[1]) ELSE w1 :
        w \in {world}, r \in {result} } : TRUE

\* a Registry call made by the Integration Layer, noted in `issued`
RegistryCall(w, name, chainId) ==
  [w EXCEPT !.issued = Append(@, [NoCall EXCEPT !.op = name, !.chain = chainId,
                                                !.origin = "subscribe"])]

\* variant: a chain outside the enabled set is not enabled first
StateListener_NoAutoEnable(w) ==
  LET st == w.state IN
  IF st.isConnected /\ st.chainId # NoChain
     /\ getCurrentChainId(w.config, NS) # st.chainId
  THEN LET w1 == RegistryCall(w, "setCurrentNetwork", st.chainId)
       IN Emit(w1, setCurrentNetwork(w1.config, NS, st.chainId))
  ELSE w

\* the walletManager.subscribe() callback
StateListener(w) ==
  LET st == w.state IN
  IF st.isConnected /\ st.chainId # NoChain
     /\ getCurrentChainId(w.config, NS) # st.chainId
  THEN IF isNetworkEnabled(w.config, NS, st.chainId)
       THEN LET w1 == RegistryCall(w, "setCurrentNetwork", st.chainId)
            IN Emit(w1, setCurrentNetwork(w1.config, NS, st.chainId))
       ELSE LET w1 == RegistryCall(w, "toggleNetwork", st.chainId)
                w2 == Emit(w1, toggleNetwork(w1.config, NS, st.chainId, TRUE))
                w3 == RegistryCall(w2, "setCurrentNetwork", st.chainId)
            IN Emit(w3, setCurrentNetwork(w3.config, NS, st.chainId))
  ELSE w

\* the listener calls of one pass over `listeners`, each with a snapshot
Notify(ls, snapshot) == [i \in 1..Len(ls) |-> [listener |-> ls[i], state |-> snapshot]]

\* (the IntegratedManager's listener subscribes first, in its constructor)
updateState(world, newState) ==
  CHOOSE updated \in
    { LET w1 == [w EXCEPT !.state = st, !.published = TRUE]
          w2 == IF integrated THEN StateListener(w1) ELSE w1
      IN [w2 EXCEPT !.notified = @ \o Notify(w.listeners, st)] :
        w \in {world}, st \in {newState} } : TRUE

(* ------------------- Coordinator: calls and resumptions ---------------- *)
ConnectedState(info, addrs, chs, c) ==
  [isConnected |-> TRUE, isConnecting |-> FALSE, address |-> info.address,
   addresses |-> addrs, chainId |-> info.chainId, chains |-> chs,
   connector |-> c, error |-> NoErr]

\* no session and nothing left of one
Disconnected(st) ==
  /\ ~st.isConnected /\ st.connector = NoConn
  /\ st.address = NoAddr /\ st.chainId = NoChain

Settled(call, res) == [Idle EXCEPT !.op = call.op, !.res = res, !.call = call]

Pending(call) == [Idle EXCEPT !.op = call.op, !.res = "pending"]

\* a step: the world after it, and what is recorded about it
Commit(world, l) ==
  \E w \in {world} :
    /\ BagCardinality(w.inflight) <= MaxInflight
    /\ state' = w.state
    /\ storage' = w.storage
    /\ inflight' = w.inflight
    /\ config' = w.config
    /\ adapterChains' = w.adapterChains
    /\ listeners' = w.listeners
    /\ last' = [l EXCEPT !.issued = w.issued, !.published = w.published,
                         !.notified = w.notified]
    /\ UNCHANGED <<connectors, wired, integrated>>

\* connect(): from `this.updateState({...isConnecting: true})` to the await
\* (`start` notes whether the session was fully disconnected at that point)
ConnectBegin(w, call) ==
  Suspend(updateState(w, [w.state EXCEPT !.isConnecting = TRUE, !.error = NoErr]),
          [call EXCEPT !.pc = "awaitConnect", !.invoked = @ \cup {"connect"},
                       !.start = IF Disconnected(w.state) THEN "disconnected"
                                 ELSE "session"])

\* variant: connect() does not wait for the active connector's disconnect()
Connect_Unawaited(c, chainId) ==
  LET call == [NoCall EXCEPT !.op = "connect", !.conn = c, !.chain = chainId,
                             !.origin = "user"]
  IN Commit(ConnectBegin(World, call),
            Pending([call EXCEPT !.pc = "awaitConnect"]))

Connect(c, chainId) ==
  LET call == [NoCall EXCEPT !.op = "connect", !.conn = c, !.chain = chainId,
                             !.origin = "user"]
  IN IF state.connector # NoConn /\ state.connector # c
     THEN LET first == [call EXCEPT !.pc = "awaitDisconnect",
                                    !.displaced = state.connector,
                                    !.invoked = {"disconnect"}]
          IN Commit(Suspend(World, first), Pending(first))
     ELSE Commit(ConnectBegin(World, call),
                 Pending([call EXCEPT !.pc = "awaitConnect"]))

\* the displaced connector's disconnect() settles
ConnectDisplacedSettled(call, ok) ==
  /\ call.op = "connect" /\ call.pc = "awaitDisconnect"
  /\ LET c1 == [call EXCEPT !.invoked = @ \cup {"disconnect.settled"}]
     IN IF ok
        THEN Commit(ConnectBegin(Resume(World, call), c1),
                    Pending([c1 EXCEPT !.pc = "awaitConnect"]))
        ELSE Commit(Resume(World, call), Settled(c1, "rejected"))

\* connector.connect() resolves with `info`; hasList = FALSE when the result
\* carries no `addresses`
ConnectResolved(call, info, hasList) ==
  /\ call.op = "connect" /\ call.pc = "awaitConnect"
  /\ LET addrs == IF hasList THEN info.addresses ELSE {info.address}
         w1 == updateState(Resume(World, call),
                           ConnectedState(info, addrs, UndefChains, call.conn))
     IN Commit(PersistConnection(w1),
               [Settled(call, "resolved") EXCEPT !.info = info])

\* variant: the catch block resets the whole state
ConnectRejected_Reset(call) ==
  /\ call.op = "connect" /\ call.pc = "awaitConnect"
  /\ Commit(updateState(Resume(World, call), InitialState), Settled(call, "rejected"))

ConnectRejected(call) ==
  /\ call.op = "connect" /\ call.pc = "awaitConnect"
  /\ LET w0 == Resume(World, call)
     IN Commit(updateState(w0, [w0.state EXCEPT !.isConnecting = FALSE, !.error = "err"]),
               Settled(call, "rejected"))

Disconnect ==
  LET call == [NoCall EXCEPT !.op = "disconnect", !.origin = "user",
                             !.conn = state.connector]
  IN IF state.connector # NoConn
     THEN Commit(DisconnectCall(World, "user"),
                 Pending([call EXCEPT !.pc = "awaitDisconnect",
                                      !.invoked = {"disconnect"}]))
     ELSE Commit(World, Settled(call, "resolved"))

\* connector.disconnect() settles; nothing follows the await, so the call
\* settles the same way (the step notes the connector's outcome)
DisconnectSettled(call, ok) ==
  /\ call.op = "disconnect" /\ call.pc = "awaitDisconnect"
  /\ LET c1 == [call EXCEPT !.invoked = @ \cup {IF ok THEN "disconnect.resolved"
                                                ELSE "disconnect.rejected"}]
     IN Commit(Resume(World, call), Settled(c1, IF ok THEN "resolved" ELSE "rejected"))

AutoConnect ==
  LET call == [NoCall EXCEPT !.op = "autoConnect", !.origin = "user"]
  IN IF storage = <<>>
     THEN Commit(World, Settled(call, "false"))
     ELSE LET persisted == storage[1]
              c1 == [call EXCEPT !.conn = persisted.connectorId,
                                 !.addr = persisted.address]
          IN IF isExpired(persisted.timestamp, CONNECTION_TIMEOUT)
             THEN Commit(StorageClear(World), Settled(c1, "false"))
             ELSE IF persisted.connectorId \notin connectors
             THEN Commit(StorageClear(World), Settled(c1, "false"))
             ELSE LET c2 == [c1 EXCEPT !.pc = "awaitAuthorized",
                                       !.invoked = {"isAuthorized"}]
                  IN Commit(Suspend(World, c2), Pending(c2))

\* connector.isAuthorized() settles: "true", "false" or "reject"
AutoConnectAuthorized(call, outcome) ==
  /\ call.op = "autoConnect" /\ call.pc = "awaitAuthorized"
  /\ LET w0 == Resume(World, call)
     IN CASE outcome = "reject" -> Commit(w0, Settled(call, "rejected"))
          [] outcome = "false" -> Commit(StorageClear(w0), Settled(call, "false"))
          [] OTHER ->
               LET c1 == [call EXCEPT !.pc = "awaitRestore",
                            !.invoked = @ \cup {"getAccount", "getAccounts", "getChainId"}]
               IN Commit(Suspend(w0, c1), Pending(c1))

\* variant: the persisted address is restored without the fallback
AutoConnectRestored_NoFallback(call, info) ==
  /\ call.op = "autoConnect" /\ call.pc = "awaitRestore"
  /\ LET restoredAddress == IF call.addr \in info.addresses THEN call.addr
                            ELSE NoAddr
         supportedChains == GetSupportedChains(call.conn)
         chs == IF supportedChains # NullChains THEN supportedChains ELSE DappChains
         c1 == [call EXCEPT !.invoked = @ \cup {"getSupportedChains"}]
     IN Commit(updateState(Resume(World, call),
                 ConnectedState([info EXCEPT !.address = restoredAddress],
                                info.addresses, chs, call.conn)),
               [Settled(c1, "true") EXCEPT !.info = info])

\* variant: the connector's primary address always wins
AutoConnectRestored_Primary(call, info) ==
  /\ call.op = "autoConnect" /\ call.pc = "awaitRestore"
  /\ LET supportedChains == GetSupportedChains(call.conn)
         chs == IF supportedChains # NullChains THEN supportedChains ELSE DappChains
         c1 == [call EXCEPT !.invoked = @ \cup {"getSupportedChains"}]
     IN Commit(updateState(Resume(World, call),
                 ConnectedState(info, info.addresses, chs, call.conn)),
               [Settled(c1, "true") EXCEPT !.info = info])

\* Promise.all([getAccount(), getAccounts(), getChainId()]) resolves
AutoConnectRestored(call, info) ==
  /\ call.op = "autoConnect" /\ call.pc = "awaitRestore"
  /\ LET supportedChains == GetSupportedChains(call.conn)
         chs == IF supportedChains # NullChains THEN supportedChains ELSE DappChains
         restoredAddress == IF call.addr \in info.addresses THEN call.addr
                            ELSE info.address
         c1 == [call EXCEPT !.invoked = @ \cup {"getSupportedChains"}]
     IN Commit(updateState(Resume(World, call),
                 ConnectedState([info EXCEPT !.address = restoredAddress],
                                info.addresses, chs, call.conn)),
               [Settled(c1, "true") EXCEPT !.info = info])

\* one of the three queries rejects, or getSupportedChains() throws
AutoConnectRestoreFailed(call) ==
  /\ call.op = "autoConnect" /\ call.pc = "awaitRestore"
  /\ Commit(StorageClear(Resume(World, call)), Settled(call, "false"))

SwitchAccount(address) ==
  LET call == [NoCall EXCEPT !.op = "switchAccount", !.origin = "user",
                             !.conn = state.connector, !.addr = address]
  IN IF state.connector = NoConn
     THEN Commit(World, Settled(call, "rejected"))
     ELSE LET c1 == [call EXCEPT !.pc = "awaitSwitchAccount",
                                 !.invoked = {"switchAccount"}]
          IN Commit(Suspend(World, c1), Pending(c1))

SwitchAccountSettled(call, ok) ==
  /\ call.op = "switchAccount" /\ call.pc = "awaitSwitchAccount"
  /\ LET w0 == Resume(World, call)
     IN IF ok
        THEN Commit(PersistConnection(updateState(w0, [w0.state EXCEPT !.address = call.addr])),
                    Settled(call, "resolved"))
        ELSE Commit(w0, Settled(call, "rejected"))

SwitchChain(chainId) ==
  LET call == [NoCall EXCEPT !.op = "switchChain", !.origin = "user",
                             !.conn = state.connector, !.chain = chainId,
                             !.onReject = "throw"]
  IN IF SwitchChainRejectsEarly(World, chainId)
     THEN Commit(SwitchChainCall(World, chainId, "user", "throw"),
                 Settled(call, "rejected"))
     ELSE Commit(SwitchChainCall(World, chainId, "user", "throw"),
                 Pending([call EXCEPT !.pc = "awaitSwitchChain",
                                      !.invoked = {"switchChain"}]))

SwitchChainResolved(call) ==
  /\ call.op = "switchChain" /\ call.pc = "awaitSwitchChain"
  /\ LET w0 == Resume(World, call)
     IN Commit(PersistConnection(updateState(w0, [w0.state EXCEPT !.chainId = call.chain])),
               Settled(call, "resolved"))

\* variant: the catch block rethrows without re-asserting the state
SwitchChainRejected_NoReassert(call) ==
  /\ call.op = "switchChain" /\ call.pc = "awaitSwitchChain"
  /\ Commit(OnSwitchRejected(Resume(World, call), call), Settled(call, "rejected"))

\* variant: the caller's .catch() makes the same switchChain call again
SwitchChainRejected_Retry(call) ==
  /\ call.op = "switchChain" /\ call.pc = "awaitSwitchChain"
  /\ LET w0 == Resume(World, call)
         currentState == w0.state
         w1 == IF currentState.isConnected /\ currentState.address # NoAddr
               THEN PersistConnection(updateState(w0, currentState))
               ELSE w0
     IN Commit(SwitchChainCall(w1, call.chain, call.origin, call.onReject),
               Settled(call, "rejected"))

\* the catch block of switchChain(), then the caller's .catch()
SwitchChainRejected(call) ==
  /\ call.op = "switchChain" /\ call.pc = "awaitSwitchChain"
  /\ LET w0 == Resume(World, call)
         currentState == w0.state
         w1 == IF currentState.isConnected /\ currentState.address # NoAddr
               THEN PersistConnection(updateState(w0, currentState))
               ELSE w0
     IN Commit(OnSwitchRejected(w1, call), Settled(call, "rejected"))

(* ---------------------- Coordinator: event wiring ---------------------- *)
\* (the step notes the connector that emitted the event)
Event(name, c) == [Idle EXCEPT !.op = name, !.call.conn = c]

\* the four handlers registerConnector() attaches, as steps on a world
connectedHandler(w, c, info) ==
  PersistConnection(updateState(w, ConnectedState(info, info.addresses, info.chains, c)))

disconnectedHandler(w, c) ==
  IF w.state.connector = c
  THEN StorageClear(updateState(w, InitialState))
  ELSE w

permissionChangedHandler(w, c, info) ==
  IF w.state.connector = c
  THEN PersistConnection(updateState(w,
         [w.state EXCEPT !.address = info.address,
                         !.addresses = info.addresses,
                         !.chainId = info.chainId,
                         !.chains = info.chains]))
  ELSE w

errorHandler(w, c) ==
  IF w.state.connector = c \/ w.state.isConnecting
  THEN updateState(w, [w.state EXCEPT !.error = "err", !.isConnecting = FALSE])
  ELSE w

\* BaseConnector.emit: the connector calls every handler attached for the
\* event, `n` of them from this manager
RECURSIVE EmitToManager(_, _, _, _, _)
EmitToManager(w, name, c, info, n) ==
  IF n = 0 THEN w
  ELSE LET w1 == CASE name = "connected" -> connectedHandler(w, c, info)
                   [] name = "disconnected" -> disconnectedHandler(w, c)
                   [] name = "permissionChanged" -> permissionChangedHandler(w, c, info)
                   [] name = "error" -> errorHandler(w, c)
       IN EmitToManager(w1, name, c, info, n - 1)

\* registerConnector(connector): Map.set, then four connector.on(...) with
\* fresh closures
RegisterConnector(c) ==
  /\ wired[c] < MaxWiring
  /\ connectors' = connectors \cup {c}
  /\ wired' = [wired EXCEPT ![c] = @ + 1]
  /\ last' = [Idle EXCEPT !.op = "registerConnector", !.call.conn = c]
  /\ UNCHANGED <<state, storage, inflight, config, adapterChains, integrated,
                 listeners>>

OnConnected(c, info) ==
  /\ c \in connectors
  /\ Commit(EmitToManager(World, "connected", c, info, wired[c]),
            [Event("connected", c) EXCEPT !.info = info])

\* variant: the handler resets the state and leaves the record in storage
OnDisconnected_KeepRecord(c) ==
  /\ c \in connectors
  /\ IF state.connector = c
     THEN Commit(updateState(World, InitialState), Event("disconnected", c))
     ELSE Commit(World, Event("disconnected", c))

OnDisconnected(c) ==
  /\ c \in connectors
  /\ Commit(EmitToManager(World, "disconnected", c, NoInfo, wired[c]),
            Event("disconnected", c))

\* variant: the handler merges the payload without persistConnection()
OnPermissionChanged_NoPersist(c, info) ==
  /\ c \in connectors
  /\ IF state.connector = c
     THEN Commit(updateState(World,
                   [state EXCEPT !.address = info.address,
                                 !.addresses = info.addresses,
                                 !.chainId = info.chainId,
                                 !.chains = info.chains]),
                 [Event("permissionChanged", c) EXCEPT !.info = info])
     ELSE Commit(World, [Event("permissionChanged", c) EXCEPT !.info = info])

OnPermissionChanged(c, info) ==
  /\ c \in connectors
  /\ Commit(EmitToManager(World, "permissionChanged", c, info, wired[c]),
            [Event("permissionChanged", c) EXCEPT !.info = info])

\* variant: the handler applies whatever the source of the event
OnError_Always(c) ==
  /\ c \in connectors
  /\ Commit(updateState(World, [state EXCEPT !.error = "err", !.isConnecting = FALSE]),
            Event("error", c))

OnError(c) ==
  /\ c \in connectors
  /\ Commit(EmitToManager(World, "error", c, NoInfo, wired[c]), Event("error", c))

(* ----------------------- Coordinator: subscribers ---------------------- *)
\* variant: the listener is registered without the immediate call
Subscribe_Lazy(listener) ==
  LET call == [NoCall EXCEPT !.op = "subscribe", !.listener = listener]
      w1 == [World EXCEPT !.listeners = IF Includes(@, listener) THEN @
                                        ELSE Append(@, listener)]
  IN Commit(w1, Settled(call, "returned"))

\* subscribe(listener): Set.add, then one call with getState()
Subscribe(listener) ==
  LET call == [NoCall EXCEPT !.op = "subscribe", !.listener = listener]
      w1 == [World EXCEPT !.listeners = IF Includes(@, listener) THEN @
                                        ELSE Append(@, listener)]
  IN Commit([w1 EXCEPT !.notified = @ \o Notify(<<listener>>, w1.state)],
            Settled(call, "returned"))

\* the function subscribe() returned is called (a call once the listener is
\* gone deletes nothing)
Unsubscribe(listener) ==
  /\ Includes(listeners, listener)
  /\ LET call == [NoCall EXCEPT !.op = "unsubscribe", !.listener = listener]
     IN Commit([World EXCEPT !.listeners = SelectSeq(@, LAMBDA x : x # listener)],
               Settled(call, "returned"))

(* ------------------------ Registry: operations ------------------------- *)
RegistryOp(name, r) == [Idle EXCEPT !.op = name, !.res = r.ret]

RemoveCustomNetwork(chainId) ==
  LET r == removeCustomNetwork(config, chainId)
  IN Commit(Emit(World, r), RegistryOp("removeCustomNetwork", r))

ToggleNetwork(ns, chainId, enabled) ==
  LET r == toggleNetwork(config, ns, chainId, enabled)
  IN Commit(Emit(World, r),
            RegistryOp("toggleNetwork", r))

SetCurrentNetwork(ns, chainId) ==
  LET r == setCurrentNetwork(config, ns, chainId)
  IN Commit(Emit(World, r), RegistryOp("setCurrentNetwork", r))

AddOrUpdateCustomNetwork(chainId) ==
  LET r == addOrUpdateCustomNetwork(config, chainId)
  IN Commit(Emit(World, r), RegistryOp("addOrUpdateCustomNetwork", r))

\* (the step notes which network was updated)
UpdateNetworkRpc(chainId) ==
  LET r == updateNetworkRpc(config, chainId)
  IN Commit(Emit(World, r),
            [RegistryOp("updateNetworkRpc", r) EXCEPT !.call.chain = chainId])

InitializeNamespace(ns, defaultChainIds) ==
  LET r == initializeNamespace(config, ns, defaultChainIds)
  IN Commit(Emit(World, r), RegistryOp("initializeNamespace", r))

\* the page is loaded again: a NetworkManager is constructed over the stored
\* configuration (every operation saves, so the store holds `config`)
Construct(builtInNetworks) ==
  LET cfg == mergeBuiltInNetworks(config, builtInNetworks)
      r == [cfg |-> cfg, ret |-> IF cfg = config THEN "loaded" ELSE "merged",
            ev |-> <<>>]
  IN Commit(Emit(World, r), RegistryOp("constructor", r))

RegistryNext(nss, chs) ==
  \/ \E chainId \in chs : RemoveCustomNetwork(chainId)
  \/ \E ns \in nss, chainId \in chs, enabled \in BOOLEAN :
       ToggleNetwork(ns, chainId, enabled)
  \/ \E ns \in nss, chainId \in chs : SetCurrentNetwork(ns, chainId)

(* ------------------------------ behaviours ----------------------------- *)
InitialRecords ==
  {<<>>} \cup
  { <<[connectorId |-> c, address |-> "a1", chainId |-> 1, timestamp |-> t]>> :
      c \in ConnectorIds \cup {"Z"}, t \in {0, Hour, now} }

InitialConfig ==
  [networks |-> (1 :> [isCustom |-> FALSE]) @@ (10 :> [isCustom |-> TRUE])
                  @@ (137 :> [isCustom |-> TRUE]),
   namespaces |-> (NS :> [enabledChainIds |-> <<1, 10>>, currentChainId |-> 1])]

InitCommon ==
  /\ state = InitialState
  /\ connectors = ConnectorIds
  /\ wired = [c \in ConnectorIds |-> 1]
  /\ inflight = EmptyBag
  /\ config = InitialConfig
  /\ listeners = <<>>
  /\ last = Idle

Calls == BagToSet(inflight)

\* connect, disconnect, switchChain and the connector events
SessionNext(conns, addrs, reqs, chs) ==
  \/ \E c \in conns, chainId \in reqs : Connect(c, chainId)
  \/ \E call \in Calls, ok \in BOOLEAN : ConnectDisplacedSettled(call, ok)
  \/ \E call \in Calls, info \in ConnectionInfos(addrs, chs), hasList \in BOOLEAN :
       ConnectResolved(call, info, hasList)
  \/ \E call \in Calls : ConnectRejected(call)
  \/ Disconnect
  \/ \E call \in Calls, ok \in BOOLEAN : DisconnectSettled(call, ok)
  \/ \E chainId \in chs : SwitchChain(chainId)
  \/ \E call \in Calls : SwitchChainResolved(call)
  \/ \E call \in Calls : SwitchChainRejected(call)
  \/ \E c \in conns, info \in ConnectionInfos(addrs, chs) : OnConnected(c, info)
  \/ \E c \in conns : OnDisconnected(c)
  \/ \E c \in conns, info \in ConnectionInfos(addrs, chs) : OnPermissionChanged(c, info)
  \/ \E c \in conns : OnError(c)

\* autoConnect and switchAccount
RestoreNext(addrs, chs) ==
  \/ AutoConnect
  \/ \E call \in Calls, outcome \in {"true", "false", "reject"} :
       AutoConnectAuthorized(call, outcome)
  \/ \E call \in Calls, info \in ConnectionInfos(addrs, chs) : AutoConnectRestored(call, info)
  \/ \E call \in Calls : AutoConnectRestoreFailed(call)
  \/ \E address \in addrs : SwitchAccount(address)
  \/ \E call \in Calls, ok \in BOOLEAN : SwitchAccountSettled(call, ok)

\* a WalletConnectionManager used on its own
\* every connector is constructed with the dApp chain list
ConstructedChains(cs) == [c \in cs |-> DappChains]

CoordInit ==
  /\ InitCommon
  /\ storage \in InitialRecords
  /\ adapterChains = ConstructedChains(ConnectorIds)
  /\ integrated = FALSE

CoordNext ==
  \/ SessionNext(ConnectorIds, Addresses, {1, 137}, {1, 137})
  \/ RestoreNext(Addresses, {1, 137})

CoordSpec == CoordInit /\ [][CoordNext]_vars

\* an IntegratedManager over both managers, one adapter registered for events
\* (the connectors' chain caches, which nothing here reads, are left out)
Init ==
  /\ InitCommon
  /\ storage = <<>>
  /\ adapterChains = ConstructedChains({})
  /\ integrated = TRUE

\* the session is opened by connect() on adapter "B" and from then on driven
\* by the wallet's events and by the Integration Layer's own calls; the
\* endpoints of one custom network are edited
IntegrationNext(c, addrs, chs) ==
  \/ Connect(c, 1)
  \/ \E call \in Calls, info \in ConnectionInfos(addrs, chs) :
       ConnectResolved(call, info, TRUE)
  \/ \E call \in Calls : ConnectRejected(call)
  \/ Disconnect
  \/ \E call \in Calls, ok \in BOOLEAN : DisconnectSettled(call, ok)
  \/ \E call \in Calls : SwitchChainResolved(call)
  \/ \E call \in Calls : SwitchChainRejected(call)
  \/ OnDisconnected(c)
  \/ \E info \in ConnectionInfos(addrs, chs) : OnPermissionChanged(c, info)

Next ==
  \/ IntegrationNext("B", {"a1"}, Chains)
  \/ RegistryNext({NS}, Chains)
  \/ \E chainId \in {10} : UpdateNetworkRpc(chainId)

Spec == Init /\ [][Next]_vars

\* the same, with every connector call settling sooner or later: a promise
\* the connector returned is resolved or rejected
Settle ==
  \E call \in Calls :
    \/ \E info \in ConnectionInfos({"a1"}, {1, 10}) : ConnectResolved(call, info, TRUE)
    \/ ConnectRejected(call)
    \/ \E ok \in BOOLEAN : DisconnectSettled(call, ok)
    \/ SwitchChainResolved(call)
    \/ SwitchChainRejected(call)

QuiescenceNext ==
  \/ IntegrationNext("B", {"a1"}, {1, 10})
  \/ RegistryNext({NS}, {1, 137})

QuiescenceSpec == Init /\ [][QuiescenceNext]_vars /\ WF_vars(Settle)

\* a NetworkManager used on its own by two namespaces, the second one
\* without a record at start-up
Namespaces == {NS, "other"}

DefaultLists == {<<NoChain>>, <<>>, <<10, 1>>}

\* the built-in lists of two versions of the application
BuiltInLists == {{1}, {1, 10}}

RegistryInit ==
  /\ InitCommon
  /\ storage = <<>>
  /\ adapterChains = ConstructedChains(ConnectorIds)
  /\ integrated = FALSE

RegistryOnlyNext ==
  \/ RegistryNext(Namespaces, {1, 10})
  \/ \E chainId \in {1, 10} : AddOrUpdateCustomNetwork(chainId)
  \/ \E ns \in Namespaces, defaultChainIds \in DefaultLists :
       InitializeNamespace(ns, defaultChainIds)
  \/ \E builtInNetworks \in BuiltInLists : Construct(builtInNetworks)

RegistrySpec == RegistryInit /\ [][RegistryOnlyNext]_vars

\* an IntegratedManager whose connectors' chain caches are followed while
\* networks are enabled, disabled and removed around a session on either
\* connector
PropagationInit ==
  /\ InitCommon
  /\ storage = <<>>
  /\ adapterChains = ConstructedChains(ConnectorIds)
  /\ integrated = TRUE

PropagationNext ==
  \/ \E c \in ConnectorIds : IntegrationNext(c, {"a1"}, {1, 10})
  \/ \E call \in Calls, ok \in BOOLEAN : ConnectDisplacedSettled(call, ok)
  \/ RegistryNext({NS}, {1, 10})

PropagationSpec == PropagationInit /\ [][PropagationNext]_vars

\* a WalletConnectionManager with two application listeners that come and go
AppListeners == {"l1", "l2"}

ListenerInit ==
  /\ InitCommon
  /\ storage = <<>>
  /\ adapterChains = ConstructedChains(ConnectorIds)
  /\ integrated = FALSE

ListenerNext ==
  \/ SessionNext(ConnectorIds, {"a1"}, {1}, {1, 137})
  \/ \E listener \in AppListeners : Subscribe(listener)
  \/ \E listener \in AppListeners : Unsubscribe(listener)

ListenerSpec == ListenerInit /\ [][ListenerNext]_vars

\* a WalletConnectionManager with one application listener, whose connectors
\* are registered again after construction
RegistrationInit ==
  /\ InitCommon
  /\ storage = <<>>
  /\ adapterChains = ConstructedChains(ConnectorIds)
  /\ integrated = FALSE

RegistrationNext ==
  \/ SessionNext(ConnectorIds, {"a1"}, {1}, {1, 137})
  \/ \E c \in ConnectorIds : RegisterConnector(c)
  \/ \E listener \in {"l1"} : Subscribe(listener)

RegistrationSpec == RegistrationInit /\ [][RegistrationNext]_vars

(* ------------------------------ properties ----------------------------- *)
\* the calls a step has newly suspended at an await
Started == BagToSet(inflight') \ BagToSet(inflight)

\* C1: connect(B, c) while another connector A is active invokes A.disconnect()
\* and lets it settle before B.connect(c) is invoked; when the call resolves
\* the state's connector is B and isConnected is true.
C1_DisplacedDisconnectFirst ==
  [][ /\ \A call \in Started : call.op = "connect" =>
           /\ call.pc = "awaitDisconnect" =>
                call.displaced = state.connector /\ call.invoked = {"disconnect"}
           /\ call.pc = "awaitConnect" /\ call.displaced = NoConn =>
                state.connector \in {NoConn, call.conn}
           /\ call.pc = "awaitConnect" /\ call.displaced # NoConn =>
                {"disconnect", "disconnect.settled"} \subseteq call.invoked
      /\ last'.op = "connect" /\ last'.res = "resolved" =>
           state'.connector = last'.call.conn /\ state'.isConnected
    ]_vars

C1_Witness ==
  /\ last.op = "connect" /\ last.res = "resolved"
  /\ last.call.displaced # NoConn /\ last.call.displaced # last.call.conn
  /\ "disconnect.settled" \in last.call.invoked
  /\ state.connector = last.call.conn /\ state.isConnected

\* C2: isConnected and isConnecting are never both true, whatever calls and
\* connector events have happened (connect() on the active connector included).
C2_NeverConnectedAndConnecting == ~(state.isConnected /\ state.isConnecting)

\* C3: isConnected = true implies that address, chainId and connector are all
\* defined (connector results and events carry an address and a chainId).
C3_ConnectedHasIdentity ==
  state.isConnected =>
    state.address # NoAddr /\ state.chainId # NoChain /\ state.connector # NoConn

C3_Witness ==
  /\ last.op = "autoConnect" /\ last.res = "true"
  /\ last.call.addr \notin last.info.addresses
  /\ state.isConnected /\ state.address # NoAddr

\* C4: when disconnect(), called with a connector active, settles, no persisted
\* connection record exists - whether the connector's disconnect resolved or
\* rejected, and whatever events the connector delivered meanwhile.
C4_NoRecordWhenDisconnectSettles ==
  (/\ last.op = "disconnect" /\ last.res \in {"resolved", "rejected"}
   /\ last.call.origin = "user" /\ last.call.conn # NoConn)
  => storage = <<>>

\* C5: autoConnect() fails closed.  With no record, a record older than 24
\* hours or a record naming an unregistered connector it answers false at
\* once, and when isAuthorized() resolves false it answers false then; each
\* time no record is left, the state is as it was, and none of getAccount,
\* getAccounts, getChainId, connect has been invoked.  isAuthorized() is only
\* asked for a registered connector's record that is at most 24 hours old.
C5_AutoConnectFailsClosed ==
  [][ /\ \A call \in Started :
           call.op = "autoConnect" /\ call.pc = "awaitAuthorized" =>
             /\ storage # <<>>
             /\ now - storage[1].timestamp <= 24 * Hour
             /\ storage[1].connectorId \in connectors
      /\ last'.op = "autoConnect" /\ last'.res # "pending"
         /\ last'.call.pc = "none" =>
           /\ last'.res = "false" /\ storage' = <<>> /\ state' = state
           /\ last'.call.invoked = {}
           /\ \/ storage = <<>>
              \/ now - storage[1].timestamp > 24 * Hour
              \/ storage[1].connectorId \notin connectors
      /\ last'.op = "autoConnect" /\ last'.call.pc = "awaitAuthorized"
         /\ last'.res = "false" =>
           /\ storage' = <<>> /\ state' = state
           /\ last'.call.invoked = {"isAuthorized"}
    ]_vars

C5_Witness ==
  /\ last.op = "autoConnect" /\ last.res = "false" /\ last.call.pc = "none"
  /\ last.call.conn \in connectors
  /\ storage = <<>> /\ state = InitialState

\* C6: autoConnect() never rejects, whichever connector call fails during it.
C6_AutoConnectNeverRejects == last.op = "autoConnect" => last.res # "rejected"

\* C7: autoConnect() on a fresh record of a registered, authorized connector
\* resolves true without invoking connect, and the state is connected with
\* that connector, its live chainId and addresses, and the persisted address
\* if that is among the live addresses, else the connector's getAccount().
C7_AutoConnectRestores ==
  (last.op = "autoConnect" /\ last.res = "true") =>
    /\ "connect" \notin last.call.invoked
    /\ state.isConnected /\ ~state.isConnecting
    /\ state.connector = last.call.conn
    /\ state.chainId = last.info.chainId
    /\ state.addresses = last.info.addresses
    /\ state.address = IF last.call.addr \in last.info.addresses
                       THEN last.call.addr ELSE last.info.address

C7_Witness ==
  /\ last.op = "autoConnect" /\ last.res = "true"
  /\ last.call.addr \in last.info.addresses
  /\ last.call.addr # last.info.address
  /\ state.isConnected /\ state.address = last.call.addr

\* the namespace record of the Integration Layer, before and after a step
Before == config.namespaces[NS]

After == config'.namespaces[NS]

\* C8: whenever the Coordinator publishes a connected state whose chainId c
\* is not the namespace's current chain, the reaction leaves c current and
\* enabled; the enabled set is unchanged if c was enabled and has c appended
\* otherwise.
C8_RegistryFollowsSession ==
  [][ (/\ last'.published /\ state'.isConnected
       /\ state'.chainId # NoChain /\ Before.currentChainId # state'.chainId)
      => /\ After.currentChainId = state'.chainId
         /\ Includes(After.enabledChainIds, state'.chainId)
         /\ After.enabledChainIds =
              IF Includes(Before.enabledChainIds, state'.chainId)
              THEN Before.enabledChainIds
              ELSE Append(Before.enabledChainIds, state'.chainId)
    ]_vars

C8_Witness ==
  /\ last.op = "permissionChanged" /\ last.published
  /\ Len(last.issued) = 1
  /\ last.issued[1].op = "setCurrentNetwork" /\ last.issued[1].chain = 137
  /\ state.isConnected /\ state.chainId = 137
  /\ config.namespaces[NS] = [enabledChainIds |-> <<1, 137>>, currentChainId |-> 137]

\* the step removes network c from the catalog while the session is on c
RemovesSessionChain(c) ==
  /\ last'.op = "removeCustomNetwork"
  /\ c \in DOMAIN config.networks /\ c \notin DOMAIN config'.networks
  /\ state.isConnected /\ state.chainId = c

C10_RemovalFailureEndsDisconnected ==
  (/\ last.op = "disconnect" /\ last.call.origin = "networkRemoved.catch"
   /\ last.res \in {"resolved", "rejected"})
  => /\ ~state.isConnected /\ state.connector = NoConn
     /\ state.address = NoAddr /\ state.chainId = NoChain
     /\ storage = <<>>

\* C11: in every namespace currentChainId is undefined or one of that
\* namespace's enabledChainIds, whatever Registry operations have run.
C11_CurrentIsEnabled ==
  \A ns \in DOMAIN config.namespaces :
    \/ config.namespaces[ns].currentChainId = NoChain
    \/ Includes(config.namespaces[ns].enabledChainIds,
                config.namespaces[ns].currentChainId)

\* C12: last-network protection.  In a namespace whose only enabled chain is
\* A, toggleNetwork(ns, A, false) returns false, changes nothing and emits no
\* event; a refused toggleNetwork leaves the configuration as it was, and no
\* toggleNetwork empties an enabled set that was not empty.
C12_LastNetworkProtected ==
  /\ [](\A ns \in DOMAIN config.namespaces, A \in Chains :
          config.namespaces[ns].enabledChainIds = <<A>> =>
            toggleNetwork(config, ns, A, FALSE)
              = [cfg |-> config, ret |-> "false", ev |-> <<>>])
  /\ [][ last'.op = "toggleNetwork" =>
           /\ last'.res = "false" => config' = config
           /\ \A ns \in DOMAIN config.namespaces :
                config.namespaces[ns].enabledChainIds # <<>> =>
                  config'.namespaces[ns].enabledChainIds # <<>>
       ]_vars

C12_Witness ==
  /\ last.op = "toggleNetwork" /\ last.res = "false"
  /\ \E ns \in DOMAIN config.namespaces :
       Len(config.namespaces[ns].enabledChainIds) = 1

\* C13: setCurrentNetwork(ns, c) with c outside ns's enabled set (the
\* namespace having a record or not) changes nothing; a setCurrentNetwork
\* step therefore changes a namespace only by making current a chain that
\* was enabled in it, and a refused one leaves the configuration as it was.
C13_CurrentOnlyToEnabled ==
  [][ last'.op = "setCurrentNetwork" =>
        /\ last'.res = "refused" => config' = config
        /\ config'.networks = config.networks
        /\ \A ns \in DOMAIN config'.namespaces :
             \/ /\ ns \in DOMAIN config.namespaces
                /\ config'.namespaces[ns] = config.namespaces[ns]
             \/ /\ isNetworkEnabled(config, ns, config'.namespaces[ns].currentChainId)
                /\ config'.namespaces[ns].enabledChainIds
                     = config.namespaces[ns].enabledChainIds
    ]_vars

\* C14: switchChain(c) with no active connector, or with one whose
\* supportsChain(c) is false, rejects without the connector's switchChain
\* being invoked and leaves the state and the persisted record as they were;
\* the live call is only made on an active connector that supports c.
C14_UnsupportedChainRejectedEarly ==
  [][ /\ \A call \in Started : call.op = "switchChain" =>
           /\ state.connector # NoConn
           /\ SupportsChain(state.connector, call.chain)
      /\ (/\ last'.op = "switchChain" /\ last'.res = "rejected"
          /\ last'.call.pc = "none") =>
           /\ state.connector = NoConn
              \/ ~SupportsChain(state.connector, last'.call.chain)
           /\ "switchChain" \notin last'.call.invoked
           /\ state' = state /\ storage' = storage /\ inflight' = inflight
    ]_vars

C14_Witness ==
  /\ last.op = "switchChain" /\ last.res = "rejected" /\ last.call.pc = "none"
  /\ state.isConnected /\ state.connector = "B" /\ last.call.chain = 137
  /\ storage # <<>>

\* what persistConnection() writes for a connected state
RecordOf(st) ==
  <<[connectorId |-> st.connector, address |-> st.address,
     chainId |-> st.chainId, timestamp |-> now]>>

\* C15: when the connector's switchChain rejects, the call rejects, the
\* connected state keeps the chainId, address and connector it had, and the
\* persisted record afterwards carries those same values.
C15_FailedSwitchKeepsSession ==
  [][ (/\ last'.op = "switchChain" /\ last'.res = "rejected"
       /\ last'.call.pc = "awaitSwitchChain" /\ state.isConnected) =>
        /\ state' = state
        /\ storage' = RecordOf(state)
    ]_vars

C15_Witness ==
  /\ last.op = "switchChain" /\ last.res = "rejected"
  /\ last.call.pc = "awaitSwitchChain"
  /\ state.isConnected /\ last.call.chain # state.chainId
  /\ storage = RecordOf(state)

\* the outcome the spec gives for a rejected connect()
RejectedConnectOutcome ==
  /\ ~state'.isConnecting /\ state'.error # NoErr
  /\ ~state'.isConnected /\ state'.connector = NoConn
  /\ state'.address = NoAddr /\ state'.chainId = NoChain
  /\ storage' = storage

\* C16 (as stated): when connector.connect rejects in a connect() that began
\* in a disconnected state, isConnecting is false, the error is recorded,
\* the state is disconnected with no address, chainId or connector, and no
\* record has been written.
C16_RejectedConnectLeavesDisconnected ==
  [][ (/\ last'.op = "connect" /\ last'.res = "rejected"
       /\ last'.call.pc = "awaitConnect"
       /\ last'.call.start = "disconnected") => RejectedConnectOutcome
    ]_vars

\* C16 (amended): the catch block changes only isConnecting and error of the
\* state as it is when the rejection arrives and writes no record; so the
\* outcome above holds when no connector event has opened a session while
\* connector.connect was pending.
C16_RejectedConnectKeepsState ==
  [][ (/\ last'.op = "connect" /\ last'.res = "rejected"
       /\ last'.call.pc = "awaitConnect") =>
        /\ state' = [state EXCEPT !.isConnecting = FALSE, !.error = "err"]
        /\ storage' = storage
        /\ Disconnected(state) => RejectedConnectOutcome
    ]_vars

C16_Witness ==
  /\ last.op = "connect" /\ last.res = "rejected"
  /\ last.call.pc = "awaitConnect" /\ last.call.start = "disconnected"
  /\ last.call.displaced # NoConn
  /\ Disconnected(state) /\ ~state.isConnecting /\ state.error # NoErr

\* the Coordinator calls among the calls a stretch of code issued
CoordinatorCalls(issued) ==
  SelectSeq(issued, LAMBDA x : x.op \in {"switchChain", "disconnect"})

Propagated(issued) == \E i \in 1..Len(issued) : issued[i].op = "updateChains"

\* C17: when toggleNetwork(ns, c, false) succeeds for the Integration Layer's
\* namespace while the session is connected on c, switchChain is issued to
\* the first remaining enabled network; when that switchChain rejects,
\* disconnect() is called and no other network is tried.
C17_DisableSwitchesToFirstEnabled ==
  /\ [](\A c \in Chains :
          LET r == toggleNetwork(config, NS, c, FALSE)
              rest == getEnabledNetworks(r.cfg, NS)
              calls == CoordinatorCalls(Emit(World, r).issued)
          IN (/\ r.ret = "true" /\ state.isConnected /\ state.chainId = c
              /\ Len(rest) > 0) =>
               /\ Len(calls) \in {1, 2}
               /\ calls[1].op = "switchChain" /\ calls[1].chain = rest[1]
               /\ Len(calls) = 2 =>
                    /\ SwitchChainRejectsEarly(World, rest[1])
                    /\ calls[2].op = "disconnect")
  /\ [][ (/\ last'.op = "switchChain" /\ last'.res = "rejected"
          /\ last'.call.origin = "networkToggled") =>
           /\ Len(CoordinatorCalls(last'.issued)) = 1
           /\ CoordinatorCalls(last'.issued)[1].op = "disconnect"
       ]_vars

C17_Witness ==
  /\ last.op = "switchChain" /\ last.res = "rejected"
  /\ last.call.origin = "networkToggled"
  /\ Len(getEnabledNetworks(config, NS)) > 1
  /\ Len(CoordinatorCalls(last.issued)) = 1
  /\ CoordinatorCalls(last.issued)[1].op = "disconnect"

\* C18: a currentNetworkChanged(ns, c) event makes the Integration Layer
\* issue switchChain(c) exactly when ns is its namespace, the session is
\* connected and the session's chainId differs from c; otherwise the handler
\* does nothing.
C18_CurrentChangeSwitchesSession ==
  /\ [](\A ns \in Namespaces, c \in Chains :
          LET w == OnCurrentNetworkChanged(World, ns, c)
              calls == CoordinatorCalls(w.issued)
          IN IF ns = NS /\ state.isConnected /\ state.chainId # c
             THEN /\ Len(calls) = 1
                  /\ calls[1].op = "switchChain" /\ calls[1].chain = c
             ELSE w = World)
  /\ [][ (last'.op = "setCurrentNetwork" /\ last'.res = "set") =>
           LET calls == CoordinatorCalls(last'.issued)
           IN IF state.isConnected /\ state.chainId # After.currentChainId
              THEN /\ Len(calls) = 1 /\ calls[1].op = "switchChain"
                   /\ calls[1].chain = After.currentChainId
              ELSE calls = <<>>
       ]_vars

C18_Witness ==
  /\ last.op = "setCurrentNetwork" /\ last.res = "set"
  /\ Len(last.issued) = 1
  /\ last.issued[1].op = "switchChain"
  /\ last.issued[1].origin = "currentNetworkChanged"
  /\ last.issued[1].chain = config.namespaces[NS].currentChainId
  /\ state.isConnected /\ state.chainId # last.issued[1].chain

\* C19: on networkUpdated the chain list is propagated only if the updated
\* network is enabled in the namespace, not when the session is connected on
\* another chain than the updated one, and neither switchChain nor
\* disconnect is issued.
C19_UpdatePropagatesSelectively ==
  [][ last'.op = "updateNetworkRpc" =>
        /\ Propagated(last'.issued) =>
             /\ isNetworkEnabled(config, NS, last'.call.chain)
             /\ ~(state.isConnected /\ state.chainId # last'.call.chain)
        /\ CoordinatorCalls(last'.issued) = <<>>
    ]_vars

Propagations(issued) == SelectSeq(issued, LAMBDA x : x.op = "updateChains")

\* the ids of a list of networks
ChainIdsOf(networks) == {networks[i] : i \in 1..Len(networks)}

C22_EveryAdapterCacheFollows ==
  [][ (/\ last'.op \in {"toggleNetwork", "removeCustomNetwork"}
       /\ getEnabledNetworks(config', NS) # getEnabledNetworks(config, NS)) =>
        \A c \in connectors :
          adapterChains'[c] = ChainIdsOf(getEnabledNetworks(config', NS))
    ]_vars

\* C23: when the active connector's disconnect() rejects, the Coordinator's
\* disconnect() does not reject towards its caller, and the session is
\* disconnected locally (isConnected false, connector cleared).
C23_DisconnectRejectionSwallowed ==
  [][ (/\ last'.op = "disconnect"
       /\ "disconnect.rejected" \in last'.call.invoked) =>
        /\ last'.res # "rejected"
        /\ ~state'.isConnected /\ state'.connector = NoConn
    ]_vars

\* C24: whenever the state's connector changes from one connector to a
\* different one (through connect(), overlapping connect() calls or a
\* `connected` event of the new connector), disconnect() has been invoked on
\* the connector that is replaced.
C24_ReplacedConnectorDisconnected ==
  [][ (/\ state.connector # NoConn /\ state'.connector # NoConn
       /\ state'.connector # state.connector) =>
        /\ last'.op = "connect"
        /\ last'.call.displaced = state.connector
        /\ "disconnect" \in last'.call.invoked
    ]_vars

\* the list without every occurrence of c
Without(seq, c) == SelectSeq(seq, LAMBDA id : id # c)

\* C25: removeCustomNetwork(c) for a custom network c removes c from every
\* namespace's enabledChainIds, sets the current chain of every namespace
\* whose current was c to the first remaining enabled id (undefined when none
\* remain), leaves every other namespace's current unchanged, deletes the
\* catalog entry and emits networkRemoved(c) alone; for a non-custom or
\* unknown chain it changes nothing and emits nothing.
C25_RemoveCustomNetworkEffect ==
  /\ [](\A c \in Chains :
          LET r == removeCustomNetwork(config, c)
          IN IF c \in DOMAIN config.networks /\ config.networks[c].isCustom
             THEN /\ r.ret = "removed"
                  /\ Len(r.ev) = 1 /\ r.ev[1].type = "networkRemoved"
                  /\ r.ev[1].chainId = c
                  /\ c \notin DOMAIN r.cfg.networks
             ELSE r = [cfg |-> config, ret |-> "ignored", ev |-> <<>>])
  /\ [][ last'.op = "removeCustomNetwork" =>
           /\ last'.res = "ignored" => config' = config
           /\ last'.res = "removed" =>
                \E c \in DOMAIN config.networks :
                  /\ config.networks[c].isCustom
                  /\ config'.networks =
                       [x \in DOMAIN config.networks \ {c} |-> config.networks[x]]
                  /\ DOMAIN config'.namespaces = DOMAIN config.namespaces
                  /\ \A ns \in DOMAIN config.namespaces :
                       LET old == config.namespaces[ns]
                           new == config'.namespaces[ns]
                       IN /\ new.enabledChainIds = Without(old.enabledChainIds, c)
                          /\ new.currentChainId =
                               IF old.currentChainId # c THEN old.currentChainId
                               ELSE IF Len(new.enabledChainIds) > 0
                                    THEN new.enabledChainIds[1]
                                    ELSE NoChain
       ]_vars

\* a namespace's record, or the empty one toggleNetwork starts from
RecordIn(cfg, ns) ==
  IF HasNamespace(cfg, ns) THEN cfg.namespaces[ns]
  ELSE [enabledChainIds |-> <<>>, currentChainId |-> NoChain]

\* C26: enabling c in a namespace with no enabled network makes c current,
\* enabling into a non-empty set leaves current unchanged; disabling the
\* current network (enabled, not the last) makes the first remaining enabled
\* id current, disabling any other network leaves current unchanged.
C26_ToggleMovesCurrent ==
  /\ [](\A ns \in Namespaces, c \in Chains :
          LET rec == RecordIn(config, ns)
              on == RecordIn(toggleNetwork(config, ns, c, TRUE).cfg, ns)
              off == RecordIn(toggleNetwork(config, ns, c, FALSE).cfg, ns)
          IN /\ rec.enabledChainIds = <<>> =>
                  on.currentChainId = c /\ on.enabledChainIds = <<c>>
             /\ rec.enabledChainIds # <<>> =>
                  on.currentChainId = rec.currentChainId
             /\ (/\ rec.currentChainId = c /\ Includes(rec.enabledChainIds, c)
                 /\ Len(rec.enabledChainIds) > 1) =>
                  /\ off.enabledChainIds = Without(rec.enabledChainIds, c)
                  /\ off.currentChainId = off.enabledChainIds[1]
             /\ rec.currentChainId # c =>
                  off.currentChainId = rec.currentChainId)
  /\ [][ (last'.op = "toggleNetwork" /\ last'.res = "true") =>
           \A ns \in DOMAIN config'.namespaces :
             LET old == RecordIn(config, ns)
                 new == config'.namespaces[ns]
             IN IF Len(new.enabledChainIds) > Len(old.enabledChainIds)
                THEN new.currentChainId =
                       IF old.enabledChainIds = <<>> THEN new.enabledChainIds[1]
                       ELSE old.currentChainId
                ELSE IF Len(new.enabledChainIds) < Len(old.enabledChainIds)
                THEN new.currentChainId =
                       IF Includes(new.enabledChainIds, old.currentChainId)
                          \/ ~Includes(old.enabledChainIds, old.currentChainId)
                       THEN old.currentChainId
                       ELSE new.enabledChainIds[1]
                ELSE new.currentChainId = old.currentChainId
       ]_vars

C26_Witness ==
  /\ last.op = "toggleNetwork" /\ last.res = "true"
  /\ config.namespaces[NS] = [enabledChainIds |-> <<10>>, currentChainId |-> 10]
  /\ HasNamespace(config, "other")
  /\ config.namespaces["other"] = [enabledChainIds |-> <<1>>, currentChainId |-> 1]

\* C27: initializeNamespace(ns, ids) changes nothing when ns has a record;
\* otherwise the enabled set becomes ids restricted to the catalog (the whole
\* catalog when ids is omitted) and the current chain becomes the first id of
\* that filtered enabled set.
C27_InitializeSeedsNamespace ==
  /\ [](\A ns \in Namespaces, ids \in DefaultLists :
          LET r == initializeNamespace(config, ns, ids)
              seed == IF ids = <<NoChain>> THEN Ascending(DOMAIN config.networks)
                      ELSE ids
              kept == SelectSeq(seed, LAMBDA id : id \in DOMAIN config.networks)
          IN IF HasNamespace(config, ns)
             THEN r.cfg = config
             ELSE /\ r.cfg.networks = config.networks
                  /\ r.cfg.namespaces[ns].enabledChainIds = kept
                  /\ r.cfg.namespaces[ns].currentChainId =
                       IF Len(kept) > 0 THEN kept[1] ELSE NoChain)
  /\ [][ last'.op = "initializeNamespace" =>
           /\ last'.res = "kept" => config' = config
           /\ last'.res = "created" =>
                \E ns \in DOMAIN config'.namespaces \ DOMAIN config.namespaces :
                  LET new == config'.namespaces[ns]
                  IN /\ \A i \in 1..Len(new.enabledChainIds) :
                          new.enabledChainIds[i] \in DOMAIN config.networks
                     /\ new.currentChainId =
                          IF Len(new.enabledChainIds) > 0
                          THEN new.enabledChainIds[1] ELSE NoChain
       ]_vars

\* C28: constructing a NetworkManager over a stored configuration inserts each
\* supplied built-in network whose chainId is absent from the stored catalog
\* and leaves every stored catalog entry (a user-customized one with the
\* chainId of a supplied built-in included) and every namespace record
\* unchanged.
C28_MergeKeepsStoredEntries ==
  /\ [](\A builtInNetworks \in SUBSET Chains :
          LET merged == mergeBuiltInNetworks(config, builtInNetworks)
          IN /\ DOMAIN merged.networks = DOMAIN config.networks \cup builtInNetworks
             /\ \A c \in DOMAIN config.networks :
                  merged.networks[c] = config.networks[c]
             /\ \A c \in builtInNetworks \ DOMAIN config.networks :
                  merged.networks[c] = BuiltIn(c)
             /\ merged.namespaces = config.namespaces)
  /\ [][ last'.op = "constructor" =>
           /\ config'.namespaces = config.namespaces
           /\ DOMAIN config.networks \subseteq DOMAIN config'.networks
           /\ \A c \in DOMAIN config.networks :
                config'.networks[c] = config.networks[c]
           /\ \E builtInNetworks \in BuiltInLists :
                /\ DOMAIN config'.networks
                     = DOMAIN config.networks \cup builtInNetworks
                /\ \A c \in builtInNetworks \ DOMAIN config.networks :
                     config'.networks[c] = BuiltIn(c)
           /\ last'.res = "loaded" <=> config' = config
       ]_vars

C28_Witness ==
  /\ last.op = "constructor" /\ last.res = "merged"
  /\ config.networks[1].isCustom
  /\ 10 \in DOMAIN config.networks /\ ~config.networks[10].isCustom

\* C29: toggleNetwork(ns, id, true) applied twice in a row yields the same
\* enabledChainIds (no duplicate entry) and the same currentChainId as
\* applying it once, for any prior namespace state.
C29_EnableTwiceSameAsOnce ==
  /\ [](\A ns \in Namespaces, id \in Chains :
          LET once == toggleNetwork(config, ns, id, TRUE)
              twice == toggleNetwork(once.cfg, ns, id, TRUE)
              enabledIds == twice.cfg.namespaces[ns].enabledChainIds
          IN /\ twice.cfg = once.cfg
             /\ \A i, j \in 1..Len(enabledIds) :
                  enabledIds[i] = enabledIds[j] => i = j)
  /\ [][ (last'.op = "toggleNetwork" /\ last'.res = "true") =>
           \A ns \in DOMAIN config'.namespaces :
             LET enabledIds == config'.namespaces[ns].enabledChainIds
                 new == enabledIds[Len(enabledIds)]
             IN Len(enabledIds) > Len(RecordIn(config, ns).enabledChainIds) =>
                  /\ ~Includes(RecordIn(config, ns).enabledChainIds, new)
                  /\ toggleNetwork(config', ns, new, TRUE).cfg = config'
       ]_vars

C29_Witness ==
  /\ last.op = "toggleNetwork" /\ last.res = "true"
  /\ HasNamespace(config, "other")
  /\ config.namespaces["other"].enabledChainIds = <<10, 1>>
  /\ toggleNetwork(config, "other", 1, TRUE).cfg = config
  /\ config.namespaces[NS].enabledChainIds = <<1>>

\* how often a listener was called during a step
Invocations(notified, l) == Len(SelectSeq(notified, LAMBDA n : n.listener = l))

\* C30: subscribe(listener) calls the listener exactly once, synchronously,
\* with the current state snapshot; afterwards the listener is called once
\* per Coordinator state update, with the updated state; once the returned
\* unsubscribe function has been called it is not called again.
C30_SubscribeNotifies ==
  [][ /\ last'.op = "subscribe" =>
           /\ last'.notified = <<[listener |-> last'.call.listener, state |-> state]>>
           /\ state' = state
           /\ Includes(listeners', last'.call.listener)
      /\ last'.op = "unsubscribe" =>
           /\ last'.notified = <<>>
           /\ ~Includes(listeners', last'.call.listener)
           /\ \A l \in AppListeners \ {last'.call.listener} :
                Includes(listeners', l) <=> Includes(listeners, l)
      /\ last'.op \notin {"subscribe", "unsubscribe"} =>
           /\ listeners' = listeners
           /\ \A l \in AppListeners :
                Invocations(last'.notified, l) =
                  IF Includes(listeners, l) /\ last'.published THEN 1 ELSE 0
           /\ \A i \in 1..Len(last'.notified) : last'.notified[i].state = state'
    ]_vars

C30_Witness ==
  /\ last.op = "connect" /\ last.res = "resolved"
  /\ listeners = <<"l2">>
  /\ last.notified = <<[listener |-> "l2", state |-> state]>>
  /\ state.isConnected

(* ------------------------- connector events ---------------------------- *)
LifecycleEvents == {"connected", "disconnected", "permissionChanged", "error"}

\* the previous step took the connector `c` out of the session: a connect()
\* to another connector resolved, or `c`'s own `disconnected` event cleared it
Displaced(c) ==
  /\ state.connector # c
  /\ \/ last.op = "connect" /\ last.res = "resolved" /\ last.call.displaced = c
     \/ last.op = "disconnected" /\ last.call.conn = c /\ last.published

\* C31: once a connector has been displaced as the active connector (by a
\* connect() to another connector, or after its own disconnect), a lifecycle
\* event it emits leaves ConnectionState and the persisted record unchanged.
C31_ReplacedAdapterEventsDiscarded ==
  [][ (last'.op \in LifecycleEvents /\ Displaced(last'.call.conn)) =>
        /\ state' = state
        /\ storage' = storage
    ]_vars

\* C32: a `disconnected` event emitted by the active connector resets
\* ConnectionState to the initial disconnected values and clears the
\* persisted record.
C32_DisconnectedEventResets ==
  [][ (last'.op = "disconnected" /\ last'.call.conn = state.connector) =>
        /\ state' = InitialState
        /\ storage' = <<>>
    ]_vars

C32_Witness ==
  /\ last.op = "disconnected" /\ last.call.conn = "A" /\ last.published
  /\ state = InitialState
  /\ storage = <<>>

\* C33: a `permissionChanged` event from the active connector replaces
\* address, addresses, chainId and chains with the event's values, leaves
\* isConnected, isConnecting, connector and error as they were, and persists
\* the record again with the new address and chainId.
C33_PermissionChangedMerges ==
  [][ (last'.op = "permissionChanged" /\ last'.call.conn = state.connector) =>
        /\ state' = [state EXCEPT !.address = last'.info.address,
                                  !.addresses = last'.info.addresses,
                                  !.chainId = last'.info.chainId,
                                  !.chains = last'.info.chains]
        /\ storage' = <<[connectorId |-> state.connector,
                         address |-> last'.info.address,
                         chainId |-> last'.info.chainId,
                         timestamp |-> now]>>
    ]_vars

C33_Witness ==
  /\ last.op = "permissionChanged" /\ last.call.conn = "B" /\ last.published
  /\ last.info.address = "a2" /\ last.info.chainId = 137
  /\ state.isConnected /\ state.isConnecting /\ state.connector = "B"
  /\ state.address = "a2" /\ state.addresses = Addresses
  /\ state.chainId = 137 /\ state.chains = {137}
  /\ storage = RecordOf(state)

\* C34: an `error` event is applied only when its source is the active
\* connector or a connect attempt is in flight; it then records the error and
\* clears isConnecting, leaving every other field and the persisted record as
\* they were; otherwise it changes nothing.
C34_ErrorEventEffect ==
  [][ last'.op = "error" =>
        /\ storage' = storage
        /\ IF last'.call.conn = state.connector \/ state.isConnecting
           THEN state' = [state EXCEPT !.error = "err", !.isConnecting = FALSE]
           ELSE state' = state
    ]_vars

C34_Witness ==
  /\ last.op = "error" /\ last.call.conn = "A" /\ last.published
  /\ state.isConnected /\ state.connector = "A" /\ ~state.isConnecting
  /\ state.error = "err"
  /\ storage = RecordOf(state)

\* C35: registerConnector is idempotent per id: however often a connector has
\* been registered, one event of it makes the manager update its state, and so
\* call each subscribed listener, at most once.
C35_OneHandlerSetPerId ==
  [][ last'.op \in LifecycleEvents => Len(last'.notified) <= Len(listeners) ]_vars

(* --------------------- Registry and session together ------------------- *)
\* C36: whenever the session is connected and no Coordinator call is in
\* flight, the Registry's current chain for the Integration Layer's namespace
\* equals ConnectionState.chainId.
C36_RegistryMatchesSessionAtRest ==
  (state.isConnected /\ inflight = EmptyBag) =>
    getCurrentChainId(config, NS) = state.chainId

\* the step settles a switchChain or disconnect call that the networkRemoved
\* or networkToggled handler made
SettlesReconciliation ==
  /\ last'.op \in {"switchChain", "disconnect"}
  /\ last'.res \in {"resolved", "rejected"}
  /\ last'.call.origin \in {"networkRemoved", "networkToggled",
                            "networkRemoved.catch", "networkToggled.catch"}

\* C37: a chain the Registry removed or disabled while the session was
\* connected on it is not put back by the Integration Layer: when the
\* switchChain or disconnect that was triggered settles, the chain is neither
\* among the namespace's enabled chains nor its current chain.
C37_RemovedChainStaysOut ==
  [][ (/\ SettlesReconciliation
       /\ state.isConnected /\ state.chainId # NoChain
       /\ ~isNetworkEnabled(config, NS, state.chainId)) =>
        /\ ~isNetworkEnabled(config', NS, state.chainId)
        /\ getCurrentChainId(config', NS) # state.chainId
    ]_vars

(* --------------------- session and persisted record -------------------- *)
\* C38: whenever the session is connected, a persisted record exists and no
\* Coordinator call is in flight, the record's connectorId, address and
\* chainId are those of ConnectionState.
C38_RecordMatchesSession ==
  (state.isConnected /\ storage # <<>> /\ inflight = EmptyBag) =>
    /\ storage[1].connectorId = state.connector
    /\ storage[1].address = state.address
    /\ storage[1].chainId = state.chainId

\* C39: whenever isConnected is false, address, addresses, chainId, chains
\* and connector are all undefined.
C39_DisconnectedHasNoSession ==
  ~state.isConnected =>
    /\ state.address = NoAddr
    /\ state.addresses = UndefAddrs
    /\ state.chainId = NoChain
    /\ state.chains = UndefChains
    /\ state.connector = NoConn

(* ----------------------------- termination ----------------------------- *)
\* the step resumes a call that was awaiting its connector
SettleStep == last'.res \in {"resolved", "rejected"} /\ last'.call.pc # "none"

\* C40: reactions between Registry and Coordinator terminate.  No settling
\* connector call makes the Integration Layer start another switchChain, and,
\* every connector call settling sooner or later, once the steps initiated
\* from outside (Registry mutations, Coordinator calls, connector events)
\* stop, the system comes to rest with no call in flight.
C40_ReactionsTerminate ==
  /\ [][ SettleStep =>
           \A i \in 1..Len(last'.issued) : last'.issued[i].op # "switchChain" ]_vars
  /\ \/ []<><<~SettleStep>>_vars
     \/ <>[](inflight = EmptyBag)

\* a switchChain made by a Registry handler was rejected by the wallet, the
\* handler's .catch() has started disconnect(), and nothing else follows
C40_Witness ==
  /\ last.op = "switchChain" /\ last.res = "rejected"
  /\ last.call.pc = "awaitSwitchChain"
  /\ last.call.origin = "networkToggled"
  /\ \E call \in Calls : call.op = "disconnect" /\ call.origin = "networkToggled.catch"
  /\ BagCardinality(inflight) = 1

============================================================================
